---- MODULE Spec2Model ----
(***************************************************************************)
(* The MCP adapter of the incident analyzer (src/mcp/src/index.ts): six    *)
(* tools registered on an McpServer, each forwarding one call to the       *)
(* remote incident service through a shared axios instance and turning     *)
(* the outcome into a text envelope.                                       *)
(***************************************************************************)
EXTENDS Integers, Sequences, FiniteSets, TLC

\* ------------------------------------------------------------------------
\* Bounds
\* ------------------------------------------------------------------------

\* Number of invocations the host sends (they run concurrently).
MaxInv == 2

InvIds == 1..MaxInv

\* ------------------------------------------------------------------------
\* JavaScript / JSON values
\* ------------------------------------------------------------------------

Undefined == [t |-> "undefined"]

Null == [t |-> "null"]

Str(s) == [t |-> "string", v |-> s]

\* A JSON number num/den; den = 1 for an integer.
Num(n, d) == [t |-> "number", num |-> n, den |-> d]

IntNum(n) == Num(n, 1)

Bool(b) == [t |-> "boolean", v |-> b]

Arr(items) == [t |-> "array", items |-> items]

\* An object: its own properties in insertion order, as <<key, value>> pairs.
Obj(props) == [t |-> "object", props |-> props]

Keys(o) == {o.props[j][1] : j \in 1..Len(o.props)}

HasKey(v, key) == v.t = "object" /\ key \in Keys(v)

\* v[key] for a value that is neither null nor undefined: an own property of
\* an object, undefined on a primitive or when the property is absent.
Prop(v, key) ==
    IF HasKey(v, key)
    THEN LET j == CHOOSE j \in 1..Len(v.props) : v.props[j][1] = key
         IN v.props[j][2]
    ELSE Undefined

Nullish(v) == v.t \in {"undefined", "null"}

\* a ?? b
Coalesce(a, b) == IF Nullish(a) THEN b ELSE a

RECURSIVE Join(_, _)
Join(strs, sep) ==
    IF strs = <<>> THEN ""
    ELSE IF Len(strs) = 1 THEN strs[1]
    ELSE strs[1] \o sep \o Join(Tail(strs), sep)

\* `${v}` in a template literal (String(v)).
RECURSIVE ToStr(_)
ToStr(v) ==
    CASE v.t = "string" -> v.v
      [] v.t = "number" ->
            IF v.den = 1 THEN ToString(v.num)
            ELSE ToString(v.num \div v.den) \o ".5"
      [] v.t = "boolean" -> IF v.v THEN "true" ELSE "false"
      [] v.t = "null" -> "null"
      [] v.t = "undefined" -> "undefined"
      [] v.t = "array" ->
            Join([j \in 1..Len(v.items) |->
                     IF Nullish(v.items[j]) THEN "" ELSE ToStr(v.items[j])], ",")
      [] OTHER -> "[object Object]"

RECURSIVE Spaces(_)
Spaces(n) == IF n = 0 THEN "" ELSE " " \o Spaces(n - 1)

Rest(s) == SubSeq(s, 2, Len(s))

\* Variant: a string is quoted as it is, nothing in it is escaped.
QuoteUnescaped(s) == s

\* The characters of a string as JSON.stringify writes them between the
\* quotes: a quote, a backslash and a newline are escaped.
RECURSIVE Quote(_)
Quote(s) ==
    IF s = "" THEN ""
    ELSE LET c == SubSeq(s, 1, 1)
         IN (CASE c = "\"" -> "\\\""
               [] c = "\\" -> "\\\\"
               [] c = "\n" -> "\\n"
               [] OTHER -> c) \o Quote(Rest(s))

\* JSON.stringify(v, null, 2) at nesting depth `depth`.
RECURSIVE Stringify(_, _)
Stringify(v, depth) ==
    LET inner == Spaces(2 * (depth + 1))
        outer == Spaces(2 * depth)
    IN CASE v.t = "null" -> "null"
         [] v.t = "string" -> "\"" \o Quote(v.v) \o "\""
         [] v.t = "number" -> ToStr(v)
         [] v.t = "boolean" -> ToStr(v)
         [] v.t = "array" ->
               IF v.items = <<>> THEN "[]"
               ELSE "[\n"
                    \o Join([j \in 1..Len(v.items) |->
                                inner \o Stringify(v.items[j], depth + 1)], ",\n")
                    \o "\n" \o outer \o "]"
         [] v.t = "object" ->
               IF v.props = <<>> THEN "{}"
               ELSE "{\n"
                    \o Join([j \in 1..Len(v.props) |->
                                inner \o "\"" \o Quote(v.props[j][1]) \o "\": "
                                \o Stringify(v.props[j][2], depth + 1)], ",\n")
                    \o "\n" \o outer \o "}"

JSONStringify(v) == Stringify(v, 0)

\* ------------------------------------------------------------------------
\* Results of evaluating code that may throw
\* ------------------------------------------------------------------------

Return(v) == [kind |-> "return", value |-> v]

Throw(e) == [kind |-> "throw", error |-> e]

\* ------------------------------------------------------------------------
\* axios: settled promises of axiosInstance.get / axiosInstance.post
\* ------------------------------------------------------------------------

Response(status, data) == [t |-> "response", status |-> status, data |-> data]

Fulfilled(response) == [settled |-> "fulfilled", value |-> response]

Rejected(error) == [settled |-> "rejected", reason |-> error]

\* An AxiosError; response is Undefined when no response was received.
AxiosError(message, response) ==
    [isAxiosError |-> TRUE, name |-> "AxiosError",
     message |-> Str(message), response |-> response]

\* Any other thrown value.
OtherError(name, message) ==
    [isAxiosError |-> FALSE, name |-> name,
     message |-> Str(message), response |-> Undefined]

\* ------------------------------------------------------------------------
\* Content envelopes
\* ------------------------------------------------------------------------

\* Variant: the success envelope carries an isError flag, set to false.
TextEnvelopeFlagged(text) ==
    [content |-> <<[type |-> "text", text |-> text]>>, isError |-> FALSE]

TextEnvelope(text) == [content |-> <<[type |-> "text", text |-> text]>>]

ErrorEnvelope(text) ==
    [content |-> <<[type |-> "text", text |-> text]>>, isError |-> TRUE]

IsErrorEnvelope(e) == "isError" \in DOMAIN e /\ e.isError = TRUE

TextOf(e) == e.content[1].text

\* Variant: error.response.data.message, without the optional chaining.
ResponseDataMessageUnchained(error) ==
    IF Nullish(error.response) \/ Nullish(error.response.data)
    THEN Throw(OtherError("TypeError",
                          "Cannot read properties of undefined (reading 'data')"))
    ELSE Return(Prop(error.response.data, "message"))

\* error.response?.data.message: the chain stops at a nullish response; a
\* nullish data makes the member access throw a TypeError.
ResponseDataMessage(error) ==
    IF Nullish(error.response) THEN Return(Undefined)
    ELSE IF Nullish(error.response.data)
         THEN Throw(OtherError("TypeError",
                               "Cannot read properties of null (reading 'message')"))
         ELSE Return(Prop(error.response.data, "message"))

\* Variant: every error becomes an "API error" envelope, none is rethrown.
handleAxiosErrorSwallowing(error) ==
    Return(ErrorEnvelope("API error: " \o ToStr(error.message)))

handleAxiosError(error) ==
    IF error.isAxiosError
    THEN LET m == ResponseDataMessage(error)
         IN IF m.kind = "throw" THEN m
            ELSE Return(ErrorEnvelope(
                     "API error: " \o ToStr(Coalesce(m.value, error.message))))
    ELSE Throw(error)

\* ------------------------------------------------------------------------
\* zod schemas and their parsing
\* ------------------------------------------------------------------------

ZString == [z |-> "string"]

ZNumber == [z |-> "number"]

ZArray(element) == [z |-> "array", element |-> element]

\* shape: <<key, schema>> pairs in declaration order.
ZObject(shape) == [z |-> "object", shape |-> shape]

ZNullable(inner) == [z |-> "nullable", inner |-> inner]

ZOptional(inner) == [z |-> "optional", inner |-> inner]

ZDefault(inner, value) == [z |-> "default", inner |-> inner, value |-> value]

ParseOk(data) == [success |-> TRUE, data |-> data]

\* path: the failing field, "" for the value itself.
ParseFail(path) == [success |-> FALSE, path |-> path]

Min(S) == CHOOSE x \in S : \A y \in S : x <= y

Present(pair) == pair[2].t # "undefined"

\* schema.safeParse(v): unknown keys of an object are stripped, an absent
\* optional field stays absent, a default fills in an absent field only.
RECURSIVE SafeParse(_, _)
SafeParse(schema, v) ==
    CASE schema.z = "string" ->
            IF v.t = "string" THEN ParseOk(v) ELSE ParseFail("")
      [] schema.z = "number" ->
            IF v.t = "number" THEN ParseOk(v) ELSE ParseFail("")
      [] schema.z = "optional" ->
            IF v.t = "undefined" THEN ParseOk(Undefined)
            ELSE SafeParse(schema.inner, v)
      [] schema.z = "nullable" ->
            IF v.t = "null" THEN ParseOk(Null)
            ELSE SafeParse(schema.inner, v)
      [] schema.z = "default" ->
            IF v.t = "undefined" THEN ParseOk(schema.value)
            ELSE SafeParse(schema.inner, v)
      [] schema.z = "array" ->
            IF v.t # "array" THEN ParseFail("")
            ELSE LET r == [j \in 1..Len(v.items) |->
                              SafeParse(schema.element, v.items[j])]
                     bad == {j \in 1..Len(v.items) : ~r[j].success}
                 IN IF bad # {} THEN ParseFail(ToString(Min(bad) - 1))
                    ELSE ParseOk(Arr([j \in 1..Len(v.items) |-> r[j].data]))
      [] schema.z = "object" ->
            IF v.t # "object" THEN ParseFail("")
            ELSE LET n == Len(schema.shape)
                     r == [j \in 1..n |->
                              SafeParse(schema.shape[j][2],
                                        Prop(v, schema.shape[j][1]))]
                     bad == {j \in 1..n : ~r[j].success}
                 IN IF bad # {}
                    THEN LET j == Min(bad)
                         IN ParseFail(IF r[j].path = "" THEN schema.shape[j][1]
                                      ELSE schema.shape[j][1] \o "." \o r[j].path)
                    ELSE ParseOk(Obj(SelectSeq(
                             [j \in 1..n |-> <<schema.shape[j][1], r[j].data>>],
                             Present)))

\* ------------------------------------------------------------------------
\* The registered tools
\* ------------------------------------------------------------------------

NoInputs == ZObject(<<>>)

\* Variant: incident_id optional and resolution_time_mins a string or a number.
IncidentSchemaLax ==
    ZObject(<< <<"incident_id", ZOptional(ZString)>>,
               <<"timestamp", ZString>>,
               <<"category", ZString>>,
               <<"severity", ZString>>,
               <<"description", ZString>>,
               <<"resolution_time_mins", ZOptional(ZNullable(ZString))>> >>)

IncidentSchema ==
    ZObject(<< <<"incident_id", ZString>>,
               <<"timestamp", ZString>>,
               <<"category", ZString>>,
               <<"severity", ZString>>,
               <<"description", ZString>>,
               <<"root_cause", ZOptional(ZNullable(ZString))>>,
               <<"resolution", ZOptional(ZNullable(ZString))>>,
               <<"affected_components", ZOptional(ZNullable(ZArray(ZString)))>>,
               <<"impact", ZOptional(ZNullable(ZString))>>,
               <<"resolution_time_mins", ZNumber>> >>)

AddIncidentInputs == ZObject(<< <<"incident", IncidentSchema>> >>)

DefaultK == 5

\* Variant: k without a default.
QueryInputsWithoutDefault ==
    ZObject(<< <<"query", ZString>>, <<"k", ZOptional(ZNumber)>> >>)

QueryInputs ==
    ZObject(<< <<"query", ZString>>,
               <<"k", ZDefault(ZNumber, IntNum(DefaultK))>> >>)

\* Variant: the statistics tool registered under another name.
RegistryMisnamed ==
    << [name |-> "get_incidents", title |-> "Get Incidents",
        inputSchema |-> NoInputs],
       [name |-> "add_incident", title |-> "Add Incident",
        inputSchema |-> AddIncidentInputs],
       [name |-> "analyze_root_cause", title |-> "Analyze Root Cause",
        inputSchema |-> QueryInputs],
       [name |-> "analyze_patterns", title |-> "Analyze Patterns",
        inputSchema |-> QueryInputs],
       [name |-> "search_incidents", title |-> "Search Incidents",
        inputSchema |-> QueryInputs],
       [name |-> "get_statistics", title |-> "Get Stats",
        inputSchema |-> NoInputs] >>

\* The server.registerTool calls, in registration order.
Registry ==
    << [name |-> "get_incidents", title |-> "Get Incidents",
        inputSchema |-> NoInputs],
       [name |-> "add_incident", title |-> "Add Incident",
        inputSchema |-> AddIncidentInputs],
       [name |-> "analyze_root_cause", title |-> "Analyze Root Cause",
        inputSchema |-> QueryInputs],
       [name |-> "analyze_patterns", title |-> "Analyze Patterns",
        inputSchema |-> QueryInputs],
       [name |-> "search_incidents", title |-> "Search Incidents",
        inputSchema |-> QueryInputs],
       [name |-> "get_stats", title |-> "Get Stats",
        inputSchema |-> NoInputs] >>

RegisteredNames == {Registry[j].name : j \in 1..Len(Registry)}

\* server.registerTool on a server that holds tools: a name that is already
\* registered is refused with an exception.
registerTool(tools, definition) ==
    IF \E j \in 1..Len(tools) : tools[j].name = definition.name
    THEN Throw(OtherError("Error",
                          "Tool " \o definition.name \o " is already registered"))
    ELSE Return(Append(tools, definition))

\* The registerTool statements run one after the other when the module is
\* loaded; an exception of one of them ends the process there.
RECURSIVE RegisterAll(_, _)
RegisterAll(tools, definitions) ==
    IF definitions = <<>> THEN Return(tools)
    ELSE LET r == registerTool(tools, Head(definitions))
         IN IF r.kind = "throw" THEN r
            ELSE RegisterAll(r.value, Tail(definitions))

Startup == RegisterAll(<<>>, Registry)

\* An outbound request of the shared axios instance.
Get(url, params) ==
    [method |-> "GET", url |-> url, data |-> Undefined, params |-> params]

Post(url, data) ==
    [method |-> "POST", url |-> url, data |-> data, params |-> Undefined]

\* { query, k }
QueryAndK(args) ==
    Obj(<< <<"query", Prop(args, "query")>>, <<"k", Prop(args, "k")>> >>)

GetIncidentsCall(args) == Get("/api/incidents", Undefined)

AddIncidentCall(args) == Post("/api/incidents", Prop(args, "incident"))

AnalyzeRootCauseCall(args) == Post("/api/analyze/root-cause", QueryAndK(args))

AnalyzePatternsCall(args) == Post("/api/analyze/patterns", QueryAndK(args))

SearchIncidentsCall(args) == Get("/api/search", QueryAndK(args))

\* Variant: the analytics path of the mobile client.
GetStatsCallOtherPath(args) == Get("/api/analytics", Undefined)

GetStatsCall(args) == Get("/api/incidents/stats", Undefined)

\* The call the handler registered at position h issues up to its await.
HandlerCall(h, args) ==
    CASE h = 1 -> GetIncidentsCall(args)
      [] h = 2 -> AddIncidentCall(args)
      [] h = 3 -> AnalyzeRootCauseCall(args)
      [] h = 4 -> AnalyzePatternsCall(args)
      [] h = 5 -> SearchIncidentsCall(args)
      [] h = 6 -> GetStatsCall(args)

\* The rest of every handler once its call has settled: the try block's
\* return on a response, the catch block on a rejection.
HandlerResult(outcome) ==
    IF outcome.settled = "fulfilled"
    THEN Return(TextEnvelope(JSONStringify(outcome.value.data)))
    ELSE handleAxiosError(outcome.reason)

\* ------------------------------------------------------------------------
\* Dispatch around the handlers
\* ------------------------------------------------------------------------

None == [t |-> "none"]

\* The registration position of a tool name, 0 when no tool has that name.
Resolve(name) ==
    IF name \in RegisteredNames
    THEN CHOOSE j \in 1..Len(Registry) : Registry[j].name = name
    ELSE 0

UnknownToolEnvelope(name) == ErrorEnvelope("Unknown tool: " \o name)

ValidationErrorEnvelope(path) == ErrorEnvelope("Invalid arguments: " \o path)

\* What leaves the dispatch path for a handler's result: the returned
\* envelope is the response, a thrown error propagates and nothing is
\* written.
Dispatched(result) ==
    IF result.kind = "return"
    THEN [written |-> <<result.value>>, fault |-> None]
    ELSE [written |-> <<>>, fault |-> result.error]

\* ------------------------------------------------------------------------
\* Inputs: what the host sends and how the remote service answers
\* ------------------------------------------------------------------------

Invocation(toolName, arguments) ==
    [toolName |-> toolName, arguments |-> arguments]

NoArguments == Obj(<<>>)

RequiredIncidentFields ==
    << <<"incident_id", Str("INC-1")>>,
       <<"timestamp", Str("2024-01-15T10:30:00Z")>>,
       <<"category", Str("Database")>>,
       <<"severity", Str("High")>>,
       <<"description", Str("connection pool exhausted")>> >>

\* All ten fields, two of the optional ones null.
FullIncident ==
    Obj(RequiredIncidentFields \o
        << <<"root_cause", Str("pool size too small")>>,
           <<"resolution", Null>>,
           <<"affected_components", Arr(<<Str("db"), Str("api")>>)>>,
           <<"impact", Null>>,
           <<"resolution_time_mins", IntNum(45)>> >>)

\* incident_id is missing.
IncidentWithoutId ==
    Obj(Tail(RequiredIncidentFields) \o
        << <<"resolution_time_mins", IntNum(45)>> >>)

\* resolution_time_mins is the string "45".
IncidentWithTextMinutes ==
    Obj(RequiredIncidentFields \o
        << <<"resolution_time_mins", Str("45")>> >>)

IncidentArguments(incident) == Obj(<< <<"incident", incident>> >>)

QueryOnly == Obj(<< <<"query", Str("database timeout")>> >>)

QueryWithK ==
    Obj(<< <<"query", Str("database timeout")>>, <<"k", IntNum(8)>> >>)

\* k is the string "8".
QueryWithTextK ==
    Obj(<< <<"query", Str("database timeout")>>, <<"k", Str("8")>> >>)

QueryTools == {"analyze_root_cause", "analyze_patterns", "search_incidents"}

UnknownNames == {"delete_incident"}

HostInvocations ==
    {Invocation(n, NoArguments) : n \in {"get_incidents", "get_stats"}}
    \cup {Invocation("add_incident", IncidentArguments(r)) :
             r \in {FullIncident, IncidentWithoutId, IncidentWithTextMinutes}}
    \cup {Invocation(n, a) : n \in QueryTools, a \in {QueryOnly, QueryWithK}}
    \cup {Invocation("analyze_root_cause", QueryWithTextK)}
    \cup {Invocation(n, NoArguments) : n \in UnknownNames}

\* The invocations that run beside the first one.
CoreInvocations ==
    {Invocation("get_stats", NoArguments),
     Invocation("search_incidents", QueryWithK),
     Invocation("add_incident", IncidentArguments(IncidentWithoutId))}

\* The first invocation ranges over every input; the ones that run
\* concurrently with it range over the core set.
InvocationsOf(i) == IF i = 1 THEN HostInvocations ELSE CoreInvocations

SuccessBodies ==
    {Obj(<< <<"results", Arr(<<Obj(<< <<"incident_id", Str("INC-1")>> >>)>>)>> >>)}

\* Bodies of a failure response: an object with a message, an object without
\* one, a text body, an empty body, and the JSON value null.
FailureBodies ==
    {Obj(<< <<"message", Str("db down")>> >>),
     Obj(<< <<"detail", Str("Not Found")>> >>),
     Str("Internal Server Error"),
     Str(""),
     Null}

StatusMessage(status) == "Request failed with status code " \o ToString(status)

NetworkCauses == {"connect ECONNREFUSED 127.0.0.1:8000", "connect ETIMEDOUT"}

RemoteError(status, body) ==
    Rejected(AxiosError(StatusMessage(status), Response(status, body)))

NetworkError(cause) == Rejected(AxiosError(cause, Undefined))

\* A rejection that is not an AxiosError.
InternalFault == Rejected(OtherError("TypeError", "Invalid URL"))

API_BASE_URL == "http://localhost:8000"

\* The timeout of the axios instance in milliseconds; 0, the default of
\* axios.create without a timeout option, means that a call never times out.
RequestTimeout == 0

\* axios.create({ baseURL: API_BASE_URL })
axiosInstance == [baseURL |-> API_BASE_URL, timeout |-> RequestTimeout]

TimeoutError ==
    Rejected(AxiosError("timeout of " \o ToString(RequestTimeout) \o "ms exceeded",
                        Undefined))

Outcomes ==
    {Fulfilled(Response(200, b)) : b \in SuccessBodies}
    \cup {RemoteError(500, b) : b \in FailureBodies}
    \cup {NetworkError(c) : c \in NetworkCauses}
    \cup {InternalFault}
    \cup (IF RequestTimeout > 0 THEN {TimeoutError} ELSE {})

CoreOutcomes ==
    {Fulfilled(Response(200, b)) : b \in SuccessBodies}
    \cup {RemoteError(500, Null)}
    \cup {NetworkError("connect ETIMEDOUT")}

OutcomesOf(i) == IF i = 1 THEN Outcomes ELSE CoreOutcomes

\* ------------------------------------------------------------------------
\* The mobile app: constants, the API client and the answers of the service
\* ------------------------------------------------------------------------

ANALYSIS_TYPES ==
    [ROOT_CAUSE |-> "root_cause", PATTERNS |-> "patterns", SEARCH |-> "search"]

\* The values the three radio buttons stand for.
RadioValues ==
    {ANALYSIS_TYPES.ROOT_CAUSE, ANALYSIS_TYPES.PATTERNS, ANALYSIS_TYPES.SEARCH}

\* The truthiness of a value, as if (v), v && w and v || w test it.
Truthy(v) ==
    CASE v.t \in {"undefined", "null"} -> FALSE
      [] v.t = "string" -> v.v # ""
      [] v.t = "number" -> v.num # 0
      [] v.t = "boolean" -> v.v
      [] OTHER -> TRUE

\* a || b
Or(a, b) == IF Truthy(a) THEN a ELSE b

IsWhiteSpace(c) == c \in {" ", "\n", "\t"}

RECURSIVE TrimStart(_)
TrimStart(s) ==
    IF s # "" /\ IsWhiteSpace(SubSeq(s, 1, 1)) THEN TrimStart(Rest(s)) ELSE s

RECURSIVE TrimEnd(_)
TrimEnd(s) ==
    IF s # "" /\ IsWhiteSpace(SubSeq(s, Len(s), Len(s)))
    THEN TrimEnd(SubSeq(s, 1, Len(s) - 1))
    ELSE s

\* Variant: nothing is trimmed.
TrimNothing(s) == s

\* s.trim()
Trim(s) == TrimEnd(TrimStart(s))

\* encodeURIComponent for the characters of the queries used here: a space
\* and the reserved characters are percent-encoded, letters stay.
RECURSIVE EncodeURIComponent(_)
EncodeURIComponent(s) ==
    IF s = "" THEN ""
    ELSE LET c == SubSeq(s, 1, 1)
             e == CASE c = " " -> "%20"
                    [] c = "&" -> "%26"
                    [] c = "=" -> "%3D"
                    [] c = "?" -> "%3F"
                    [] c = "/" -> "%2F"
                    [] OTHER -> c
         IN e \o EncodeURIComponent(Rest(s))

\* The timeout of the mobile axios instance in milliseconds.
MobileTimeout == 30000

\* incidentAPI
healthCheck == Get("/health", Undefined)

getIncidents == Get("/api/incidents", Undefined)

analyzeRootCause(query) ==
    Post("/api/analyze/root-cause",
         Obj(<< <<"query", Str(query)>>, <<"k", IntNum(5)>> >>))

analyzePatterns(query) ==
    Post("/api/analyze/patterns",
         Obj(<< <<"query", Str(query)>>, <<"k", IntNum(5)>> >>))

searchIncidents(query) ==
    Get("/api/search?query=" \o EncodeURIComponent(query) \o "&k=" \o ToString(5),
        Undefined)

\* The switch of analyzeIncident: the request of an analysis type, an
\* exception for any other value.
AnalysisRequest(type, query) ==
    CASE type = ANALYSIS_TYPES.ROOT_CAUSE -> Return(analyzeRootCause(query))
      [] type = ANALYSIS_TYPES.PATTERNS -> Return(analyzePatterns(query))
      [] type = ANALYSIS_TYPES.SEARCH -> Return(searchIncidents(query))
      [] OTHER -> Throw(OtherError("Error", "Invalid analysis type"))

\* What the remote service answers with success on each analysis endpoint.
RootCauseBody ==
    Obj(<< <<"success", Bool(TRUE)>>, <<"result", Str("## Root Cause Analysis")>> >>)

PatternsBody ==
    Obj(<< <<"success", Bool(TRUE)>>, <<"result", Str("## Pattern Analysis")>> >>)

SearchBody ==
    Obj(<< <<"success", Bool(TRUE)>>,
           <<"results", Arr(<<Obj(<< <<"incident_id", Str("INC-1")>>,
                                      <<"content", Str("pool exhausted")>> >>)>>)>>,
           <<"count", IntNum(1)>> >>)

AnswerTo(call) ==
    CASE call.url = "/api/analyze/root-cause" -> RootCauseBody
      [] call.url = "/api/analyze/patterns" -> PatternsBody
      [] OTHER -> SearchBody

MobileTimeoutError ==
    Rejected(AxiosError("timeout of " \o ToString(MobileTimeout) \o "ms exceeded",
                        Undefined))

\* How a request of analyzeIncident can settle: the answer of its endpoint,
\* a success without a body, a failure with or without a detail, no response.
AnalysisOutcomes(call) ==
    {Fulfilled(Response(200, AnswerTo(call))),
     Fulfilled(Response(200, Str(""))),
     RemoteError(500, Obj(<< <<"detail", Str("Analysis failed: no model")>> >>)),
     RemoteError(502, Null),
     MobileTimeoutError}

\* The statistics of the home screen before any load.
InitialStats ==
    [totalIncidents |-> 0, criticalIncidents |-> 0, averageMTTR |-> IntNum(0),
     categories |-> <<>>]

\* A loadData run at its await: neither of its two requests has settled.
LoadStarted == [health |-> None, incidents |-> None]

AllAnalysisOutcomes ==
    UNION {AnalysisOutcomes(AnalysisRequest(type, "").value) : type \in RadioValues}

\* An entry of the history of the analysis screen; now stands for Date.now()
\* and for the instant new Date().toISOString() writes down.
HistoryItem(now, query, type, result) ==
    [id |-> now, query |-> query, type |-> type, result |-> result,
     timestamp |-> now]

\* ------------------------------------------------------------------------
\* State
\* ------------------------------------------------------------------------

VARIABLES
    state,       \* per invocation: idle, received, validated, executing,
                 \* responded, faulted
    invocation,  \* per invocation: the message of the host
    validated,   \* per invocation: the parsed arguments handed to the handler
    resolved,    \* per invocation: registration position of the handler run
    calls,       \* per invocation: the outbound requests made
    settled,     \* per invocation: how its remote call settled
    responses,   \* per invocation: the envelopes written back
    faults,      \* per invocation: the error that left the dispatch path
    transport,   \* the response messages on the wire to the host (their
                 \* order is not kept)
    connected,   \* whether the host is still connected
    cutOff,      \* history: the invocations whose call was in flight when
                 \* the host disconnected
    registered,  \* the tools registered with the server
    clients,     \* the HTTP client instances created by the process
    analysisScreen,  \* mobile: the useState values of AnalysisScreen
    analyzing,       \* mobile: the analyzeIncident run that awaits its request
    outbound,        \* mobile: the requests AnalysisScreen has sent
    clock,           \* mobile: the time Date.now() reads
    homeScreen,      \* mobile: the useState values of HomeScreen
    loadRuns         \* mobile: the loadData runs that await their requests

adapterVars ==
    <<state, invocation, validated, resolved, calls, settled, responses,
      faults, transport, connected, cutOff, registered, clients>>

analysisVars == <<analysisScreen, analyzing, outbound, clock>>

homeVars == <<homeScreen, loadRuns>>

vars == <<adapterVars, analysisVars, homeVars>>

\* The response message for the request with correlation identifier id.
Message(id, envelope) == [id |-> id, result |-> envelope]

\* The transport after the envelopes of request id are handed to it: nothing
\* is written once the host has disconnected.
Written(id, envelopes) ==
    IF connected
    THEN transport \cup {Message(id, envelopes[n]) : n \in DOMAIN envelopes}
    ELSE transport

Init ==
    /\ state = [i \in InvIds |-> "idle"]
    /\ invocation = [i \in InvIds |-> None]
    /\ validated = [i \in InvIds |-> None]
    /\ resolved = [i \in InvIds |-> 0]
    /\ calls = [i \in InvIds |-> <<>>]
    /\ settled = [i \in InvIds |-> None]
    /\ responses = [i \in InvIds |-> <<>>]
    /\ faults = [i \in InvIds |-> None]
    /\ transport = {}
    /\ connected = TRUE
    /\ cutOff = {}
    /\ registered = Startup.value
    /\ clients = <<axiosInstance>>
    /\ analysisScreen = [query |-> "", analysisType |-> ANALYSIS_TYPES.ROOT_CAUSE,
                         loading |-> FALSE, error |-> Null, result |-> Null,
                         history |-> <<>>]
    /\ analyzing = None
    /\ outbound = <<>>
    /\ clock = 1
    /\ homeScreen = [loading |-> TRUE, refreshing |-> FALSE, error |-> Null,
                     stats |-> InitialStats]
    /\ loadRuns = <<LoadStarted>>

\* The transport delivers the next invocation of the host.
Receive(i, m) ==
    /\ connected
    /\ state[i] = "idle"
    /\ \A j \in InvIds : j < i => state[j] # "idle"
    /\ state' = [state EXCEPT ![i] = "received"]
    /\ invocation' = [invocation EXCEPT ![i] = m]
    /\ UNCHANGED <<validated, resolved, calls, settled, responses, faults,
                   transport, connected, cutOff,
                   registered, clients>>
    /\ UNCHANGED <<analysisVars, homeVars>>

\* Variant: a name that is not registered gets registered on the fly.
DispatchRegistering(i) ==
    /\ state[i] = "received"
    /\ LET name == invocation[i].toolName
           h == Resolve(name)
       IN IF h = 0
          THEN /\ responses' = [responses EXCEPT
                                  ![i] = Append(@, UnknownToolEnvelope(name))]
               /\ transport' = Written(i, <<UnknownToolEnvelope(name)>>)
               /\ state' = [state EXCEPT ![i] = "responded"]
               /\ registered' = Append(registered,
                                       [name |-> name, title |-> name,
                                        inputSchema |-> NoInputs])
               /\ UNCHANGED <<validated, resolved>>
          ELSE LET parsed == SafeParse(Registry[h].inputSchema,
                                       invocation[i].arguments)
               IN IF parsed.success
                  THEN /\ validated' = [validated EXCEPT ![i] = parsed.data]
                       /\ resolved' = [resolved EXCEPT ![i] = h]
                       /\ state' = [state EXCEPT ![i] = "validated"]
                       /\ UNCHANGED <<responses, transport, registered>>
                  ELSE /\ responses' =
                              [responses EXCEPT
                                 ![i] = Append(@, ValidationErrorEnvelope(parsed.path))]
                       /\ transport' =
                              Written(i, <<ValidationErrorEnvelope(parsed.path)>>)
                       /\ state' = [state EXCEPT ![i] = "responded"]
                       /\ UNCHANGED <<validated, resolved, registered>>
    /\ UNCHANGED <<invocation, calls, settled, faults, connected, cutOff,
                   clients>>
    /\ UNCHANGED <<analysisVars, homeVars>>

\* The tool is looked up and the arguments are parsed with its inputSchema;
\* only a registered tool with arguments that parse gets its handler.
Dispatch(i) ==
    /\ state[i] = "received"
    /\ LET name == invocation[i].toolName
           h == Resolve(name)
       IN IF h = 0
          THEN /\ responses' = [responses EXCEPT
                                  ![i] = Append(@, UnknownToolEnvelope(name))]
               /\ transport' = Written(i, <<UnknownToolEnvelope(name)>>)
               /\ state' = [state EXCEPT ![i] = "responded"]
               /\ UNCHANGED <<validated, resolved>>
          ELSE LET parsed == SafeParse(Registry[h].inputSchema,
                                       invocation[i].arguments)
               IN IF parsed.success
                  THEN /\ validated' = [validated EXCEPT ![i] = parsed.data]
                       /\ resolved' = [resolved EXCEPT ![i] = h]
                       /\ state' = [state EXCEPT ![i] = "validated"]
                       /\ UNCHANGED <<responses, transport>>
                  ELSE /\ responses' =
                              [responses EXCEPT
                                 ![i] = Append(@, ValidationErrorEnvelope(parsed.path))]
                       /\ transport' =
                              Written(i, <<ValidationErrorEnvelope(parsed.path)>>)
                       /\ state' = [state EXCEPT ![i] = "responded"]
                       /\ UNCHANGED <<validated, resolved>>
    /\ UNCHANGED <<invocation, calls, settled, faults, connected, cutOff,
                   registered, clients>>
    /\ UNCHANGED <<analysisVars, homeVars>>

\* Variant: a handler waits until no other invocation has a call in flight.
ExecuteOneAtATime(i) ==
    /\ state[i] = "validated"
    /\ \A j \in InvIds : state[j] # "executing"
    /\ calls' = [calls EXCEPT ![i] = Append(@, HandlerCall(resolved[i], validated[i]))]
    /\ state' = [state EXCEPT ![i] = "executing"]
    /\ UNCHANGED <<invocation, validated, resolved, settled, responses, faults,
                   transport, connected, cutOff,
                   registered, clients>>
    /\ UNCHANGED <<analysisVars, homeVars>>

\* Variant: every handler creates a client of its own for its call.
ExecuteWithNewClient(i) ==
    /\ state[i] = "validated"
    /\ calls' = [calls EXCEPT ![i] = Append(@, HandlerCall(resolved[i], validated[i]))]
    /\ state' = [state EXCEPT ![i] = "executing"]
    /\ clients' = Append(clients, axiosInstance)
    /\ UNCHANGED <<invocation, validated, resolved, settled, responses, faults,
                   transport, connected, cutOff, registered>>
    /\ UNCHANGED <<analysisVars, homeVars>>

\* The handler runs up to its await: it issues its one call.
Execute(i) ==
    /\ state[i] = "validated"
    /\ calls' = [calls EXCEPT ![i] = Append(@, HandlerCall(resolved[i], validated[i]))]
    /\ state' = [state EXCEPT ![i] = "executing"]
    /\ UNCHANGED <<invocation, validated, resolved, settled, responses, faults,
                   transport, connected, cutOff,
                   registered, clients>>
    /\ UNCHANGED <<analysisVars, homeVars>>

\* Variant: the answer of a settled call goes out under the correlation
\* identifier of the request that arrived first.
SettleMisattributed(i, outcome) ==
    /\ state[i] = "executing"
    /\ LET out == Dispatched(HandlerResult(outcome))
       IN /\ responses' = [responses EXCEPT ![i] = @ \o out.written]
          /\ transport' = Written(1, out.written)
          /\ faults' = [faults EXCEPT ![i] = out.fault]
          /\ state' = [state EXCEPT
                         ![i] = IF out.fault = None THEN "responded" ELSE "faulted"]
    /\ settled' = [settled EXCEPT ![i] = outcome]
    /\ UNCHANGED <<invocation, validated, resolved, calls, connected, cutOff,
                   registered, clients>>
    /\ UNCHANGED <<analysisVars, homeVars>>

\* The call settles and the handler resumes: it returns an envelope or
\* throws. Nothing looks at the connection: a call in flight when the host
\* disconnects settles like any other.
Settle(i, outcome) ==
    /\ state[i] = "executing"
    /\ LET out == Dispatched(HandlerResult(outcome))
       IN /\ responses' = [responses EXCEPT ![i] = @ \o out.written]
          /\ transport' = Written(i, out.written)
          /\ faults' = [faults EXCEPT ![i] = out.fault]
          /\ state' = [state EXCEPT
                         ![i] = IF out.fault = None THEN "responded" ELSE "faulted"]
    /\ settled' = [settled EXCEPT ![i] = outcome]
    /\ UNCHANGED <<invocation, validated, resolved, calls, connected, cutOff,
                   registered, clients>>
    /\ UNCHANGED <<analysisVars, homeVars>>

\* The host disconnects. main installs no handler for it, no handler takes
\* the abort signal and no request is issued with one: the calls in flight
\* stay in flight.
Close ==
    /\ connected
    /\ connected' = FALSE
    /\ cutOff' = {i \in InvIds : state[i] = "executing"}
    /\ UNCHANGED <<state, invocation, validated, resolved, calls, settled,
                   responses, faults, transport, registered, clients>>
    /\ UNCHANGED <<analysisVars, homeVars>>

Next ==
    \/ \E i \in InvIds : \E m \in InvocationsOf(i) : Receive(i, m)
    \/ \E i \in InvIds : Dispatch(i)
    \/ \E i \in InvIds : Execute(i)
    \/ \E i \in InvIds : \E o \in OutcomesOf(i) : Settle(i, o)

Spec == Init /\ [][Next]_vars

\* The same, with a host that may disconnect at any moment.
ClosingNext == Next \/ Close

ClosingSpec == Init /\ [][ClosingNext]_vars

\* The adapter's own steps are always taken eventually. The remote service
\* owes no answer; only a configured timeout guarantees that a call settles.
FairSpec ==
    /\ Spec
    /\ \A i \in InvIds :
          /\ WF_vars(Dispatch(i))
          /\ WF_vars(Execute(i))
          /\ (RequestTimeout > 0 => WF_vars(\E o \in OutcomesOf(i) : Settle(i, o)))

\* Bodies of a 2xx response: the shapes of the remote contract and the
\* other JSON values, with text that needs escaping.
JsonBodies ==
    {Obj(<< <<"results", Arr(<<Obj(<< <<"incident_id", Str("INC-1")>> >>)>>)>> >>),
     Arr(<<Obj(<< <<"id", Str("INC-1")>> >>),
           Obj(<< <<"id", Str("INC-2")>>, <<"impact", Null>> >>)>>),
     Obj(<< <<"success", Bool(TRUE)>>,
            <<"result", Str("\"pool\" full\nraise it")>>,
            <<"metadata", Obj(<< <<"k", IntNum(5)>> >>)>> >>),
     Obj(<< <<"results", Arr(<<Obj(<< <<"content", Str("C:\\db.log")>>,
                                      <<"similarity_score", Num(1, 2)>> >>)>>)>>,
            <<"count", IntNum(1)>> >>),
     Obj(<< <<"zeta", IntNum(12)>>, <<"alpha", IntNum(-7)>>, <<"mid", Num(5, 2)>> >>),
     Obj(<<>>),
     Arr(<<>>),
     Arr(<<Arr(<<IntNum(0)>>), Arr(<<>>), Bool(FALSE)>>),
     Str(""),
     Str("created"),
     IntNum(0),
     Bool(FALSE),
     Null}

SuccessOutcomes ==
    {Fulfilled(Response(status, b)) : status \in {200, 201}, b \in JsonBodies}

\* One invocation answered with a 2xx response, over every body.
SuccessNext ==
    \/ \E m \in HostInvocations : Receive(1, m)
    \/ Dispatch(1)
    \/ Execute(1)
    \/ \E o \in SuccessOutcomes : Settle(1, o)

SuccessSpec == Init /\ [][SuccessNext]_vars

\* Records for add_incident: the fields in the order of the schema, one
\* required field at most made defective, each optional field absent, null
\* or given.
IncidentFieldNames ==
    <<"incident_id", "timestamp", "category", "severity", "description",
      "root_cause", "resolution", "affected_components", "impact",
      "resolution_time_mins">>

RequiredPositions == {1, 2, 3, 4, 5, 10}

OptionalPositions == {6, 7, 8, 9}

GivenValue(name) ==
    CASE name = "resolution_time_mins" -> IntNum(45)
      [] name = "affected_components" -> Arr(<<Str("db"), Str("api")>>)
      [] OTHER -> Str("x")

\* A value of another primitive type than the field's.
MistypedValue(name) ==
    IF name = "resolution_time_mins" THEN Str("45") ELSE IntNum(7)

FieldValue(name, how) ==
    CASE how = "given" -> GivenValue(name)
      [] how = "null" -> Null
      [] how = "mistyped" -> MistypedValue(name)
      [] how = "absent" -> Undefined

\* shape: for every field position how the field is filled.
IncidentRecord(shape) ==
    Obj(SelectSeq([j \in 1..Len(IncidentFieldNames) |->
                      <<IncidentFieldNames[j],
                        FieldValue(IncidentFieldNames[j], shape[j])>>],
                  Present))

IncidentShapes ==
    {sh \in [1..Len(IncidentFieldNames) -> {"given", "null", "mistyped", "absent"}] :
        /\ \A j \in OptionalPositions : sh[j] # "mistyped"
        /\ \A j, k \in RequiredPositions :
              (sh[j] # "given" /\ sh[k] # "given") => j = k}

IncidentInvocations ==
    {Invocation("add_incident", IncidentArguments(IncidentRecord(sh))) :
        sh \in IncidentShapes}

\* One add_incident invocation with any of these records.
ValidatorNext ==
    \/ \E m \in IncidentInvocations : Receive(1, m)
    \/ Dispatch(1)
    \/ Execute(1)
    \/ \E o \in CoreOutcomes : Settle(1, o)

ValidatorSpec == Init /\ [][ValidatorNext]_vars

\* What a host may put in k: nothing, whole numbers, 2.5 and values that are
\* not numbers.
KValues ==
    {Undefined, IntNum(8), IntNum(0), Num(5, 2), Str("8"), Null, Bool(TRUE)}

QueryArguments(query, k) ==
    Obj(SelectSeq(<< <<"query", Str(query)>>, <<"k", k>> >>, Present))

QueryInvocations ==
    {Invocation(n, QueryArguments(q, k)) :
        n \in QueryTools, q \in {"database timeout", "disk full"}, k \in KValues}

\* One invocation of a query tool with any of these k.
QueryNext ==
    \/ \E m \in QueryInvocations : Receive(1, m)
    \/ Dispatch(1)
    \/ Execute(1)
    \/ \E o \in CoreOutcomes : Settle(1, o)

QuerySpec == Init /\ [][QueryNext]_vars

\* ------------------------------------------------------------------------
\* The mobile app: AnalysisScreen
\* ------------------------------------------------------------------------

\* The number of analyses the host of the screen starts.
MaxAnalyses == 2

\* What the user types into the query field.
TypedQueries == {"", "  ", "db down", " disk full "}

\* prev.slice(0, n)
SliceFromStart(seq, n) == SubSeq(seq, 1, IF Len(seq) < n THEN Len(seq) ELSE n)

\* The number of earlier entries that stay when an entry is added.
HistoryKept == 9

\* Variant: every earlier entry stays.
EarlierEntriesUncut(prev) == prev

\* The earlier entries under a new one: prev.slice(0, 9)
EarlierEntries(prev) == SliceFromStart(prev, HistoryKept)

\* err.response?.data?.detail
ResponseDataDetail(err) ==
    IF Nullish(err.response) THEN Undefined
    ELSE IF Nullish(err.response.data) THEN Undefined
    ELSE Prop(err.response.data, "detail")

\* The text the catch block of analyzeIncident puts into error.
AnalysisError(err) ==
    Or(ResponseDataDetail(err), Str("Analysis failed. Please try again."))

\* onChangeText of the query field
setQuery(q) ==
    /\ analysisScreen' = [analysisScreen EXCEPT !.query = q]
    /\ UNCHANGED <<analyzing, outbound, clock, adapterVars, homeVars>>

\* onValueChange of the radio buttons; they are not disabled while a request
\* is in flight.
setAnalysisType(type) ==
    /\ analysisScreen.analysisType # type
    /\ analysisScreen' = [analysisScreen EXCEPT !.analysisType = type]
    /\ UNCHANGED <<analyzing, outbound, clock, adapterVars, homeVars>>

\* Press on Analyze (disabled while loading): analyzeIncident up to its
\* await. The run keeps the query and the analysis type of the render in
\* which the button was pressed. limit bounds the number of requests.
analyzeIncident(limit) ==
    /\ clock <= limit
    /\ ~analysisScreen.loading
    /\ IF Trim(analysisScreen.query) = ""
       THEN /\ analysisScreen' =
                  [analysisScreen EXCEPT
                     !.error = Str("Please enter a description or question")]
            /\ UNCHANGED <<analyzing, outbound, clock>>
       ELSE LET request == AnalysisRequest(analysisScreen.analysisType,
                                           analysisScreen.query)
            IN IF request.kind = "throw"
               THEN /\ analysisScreen' =
                          [analysisScreen EXCEPT
                             !.loading = FALSE,
                             !.error = AnalysisError(request.error)]
                    /\ UNCHANGED <<analyzing, outbound, clock>>
               ELSE /\ analysisScreen' =
                          [analysisScreen EXCEPT !.loading = TRUE, !.error = Null]
                    /\ analyzing' = [query |-> analysisScreen.query,
                                     analysisType |-> analysisScreen.analysisType,
                                     call |-> request.value]
                    /\ outbound' = Append(outbound, request.value)
                    /\ clock' = clock + 1
    /\ UNCHANGED <<adapterVars, homeVars>>

\* Variant: setLoading(false) is at the end of the try block, not in finally.
analyzeIncidentResumesNoFinally(outcome) ==
    /\ analyzing # None
    /\ outcome \in AnalysisOutcomes(analyzing.call)
    /\ analysisScreen' =
          IF outcome.settled = "fulfilled"
          THEN IF Truthy(outcome.value.data)
               THEN [analysisScreen EXCEPT
                       !.result = outcome.value.data,
                       !.history =
                           <<HistoryItem(clock, analyzing.query,
                                         analyzing.analysisType,
                                         outcome.value.data)>>
                           \o EarlierEntries(@),
                       !.loading = FALSE]
               ELSE [analysisScreen EXCEPT !.loading = FALSE]
          ELSE [analysisScreen EXCEPT !.error = AnalysisError(outcome.reason)]
    /\ analyzing' = None
    /\ UNCHANGED <<outbound, clock, adapterVars, homeVars>>

\* The awaited request settles and analyzeIncident runs to its end.
analyzeIncidentResumes(outcome) ==
    /\ analyzing # None
    /\ outcome \in AnalysisOutcomes(analyzing.call)
    /\ analysisScreen' =
          IF outcome.settled = "fulfilled"
          THEN IF Truthy(outcome.value.data)
               THEN [analysisScreen EXCEPT
                       !.result = outcome.value.data,
                       !.history =
                           <<HistoryItem(clock, analyzing.query,
                                         analyzing.analysisType,
                                         outcome.value.data)>>
                           \o EarlierEntries(@),
                       !.loading = FALSE]
               ELSE [analysisScreen EXCEPT !.loading = FALSE]
          ELSE [analysisScreen EXCEPT
                  !.error = AnalysisError(outcome.reason),
                  !.loading = FALSE]
    /\ analyzing' = None
    /\ UNCHANGED <<outbound, clock, adapterVars, homeVars>>

\* Press on an entry of the history.
selectHistoryItem(n) ==
    /\ n \in 1..Len(analysisScreen.history)
    /\ LET item == analysisScreen.history[n]
       IN analysisScreen' = [analysisScreen EXCEPT
                               !.query = item.query,
                               !.analysisType = item.type,
                               !.result = item.result]
    /\ UNCHANGED <<analyzing, outbound, clock, adapterVars, homeVars>>

\* Press on Clear.
clearResults ==
    /\ analysisScreen' = [analysisScreen EXCEPT
                            !.result = Null, !.error = Null, !.query = ""]
    /\ UNCHANGED <<analyzing, outbound, clock, adapterVars, homeVars>>

AnalysisNext ==
    \/ \E q \in TypedQueries : setQuery(q)
    \/ \E type \in RadioValues : setAnalysisType(type)
    \/ analyzeIncident(MaxAnalyses)
    \/ \E o \in AllAnalysisOutcomes : analyzeIncidentResumes(o)
    \/ \E n \in 1..Len(analysisScreen.history) : selectHistoryItem(n)
    \/ clearResults

AnalysisSpec == Init /\ [][AnalysisNext]_vars

\* The request of the mobile client carries a timeout, so the awaited
\* request settles and analyzeIncident resumes.
AnalysisFairSpec ==
    /\ AnalysisSpec
    /\ (MobileTimeout > 0
          => WF_vars(\E o \in AllAnalysisOutcomes : analyzeIncidentResumes(o)))

\* The number of analyses in a row that fill the history and overflow it.
MaxHistoryRuns == 11

\* One query, analysed again and again with the analysis type of the start.
HistoryNext ==
    \/ setQuery("db down")
    \/ analyzeIncident(MaxHistoryRuns)
    \/ \E o \in AllAnalysisOutcomes : analyzeIncidentResumes(o)

HistorySpec == Init /\ [][HistoryNext]_vars

\* ------------------------------------------------------------------------
\* The mobile app: HomeScreen
\* ------------------------------------------------------------------------

RECURSIVE GCD(_, _)
GCD(a, b) == IF b = 0 THEN a ELSE GCD(b, a % b)

\* n / d for whole numbers n >= 0 and d > 0, in lowest terms.
Quotient(n, d) ==
    LET g == GCD(n, d) IN IF n = 0 THEN IntNum(0) ELSE Num(n \div g, d \div g)

\* incidents.reduce((sum, i) => sum + (i.resolution_time_hours || 0), 0)
RECURSIVE MttrSum(_)
MttrSum(incidents) ==
    IF incidents = <<>> THEN 0
    ELSE Or(Prop(Head(incidents), "resolution_time_hours"), IntNum(0)).num
         + MttrSum(Tail(incidents))

\* The statistics updateStats computes from an array of incidents.
updateStats(incidents) ==
    LET total == Len(incidents)
        critical == Len(SelectSeq(incidents,
                                  LAMBDA i : Prop(i, "severity") = Str("Critical")))
        present == {ToStr(Prop(incidents[j], "category")) : j \in 1..total}
    IN [totalIncidents |-> total,
        criticalIncidents |-> critical,
        averageMTTR |-> IF total # 0 THEN Quotient(MttrSum(incidents), total)
                        ELSE IntNum(0),
        categories |->
            [c \in present |->
                Cardinality({j \in 1..total :
                               ToStr(Prop(incidents[j], "category")) = c})]]

ListedIncident(severity, category, hours) ==
    Obj(<< <<"severity", Str(severity)>>, <<"category", Str(category)>>,
           <<"resolution_time_hours", hours>> >>)

MaxListed == 2

StoredIncidents ==
    {ListedIncident("Critical", "Database", IntNum(3)),
     ListedIncident("High", "Network", IntNum(2)),
     ListedIncident("Critical", "Network", Null)}

\* The listings of at most MaxListed stored incidents.
Listings ==
    UNION {[1..n -> StoredIncidents] : n \in 0..MaxListed}

\* Bodies of a successful GET /api/incidents: a listing under results, a body
\* without results, and no body.
IncidentListings ==
    {Obj(<< <<"results", Arr(l)>>, <<"count", IntNum(Len(l))>> >>) : l \in Listings}
    \cup {Obj(<< <<"count", IntNum(0)>> >>), Str("")}

HealthOutcomes ==
    {Fulfilled(Response(200, Obj(<< <<"status", Str("healthy")>> >>))),
     Fulfilled(Response(204, Str(""))),
     RemoteError(503, Null),
     MobileTimeoutError}

ListingOutcomes ==
    {Fulfilled(Response(200, b)) : b \in IncidentListings}
    \cup {RemoteError(500, Obj(<< <<"detail", Str("store unavailable")>> >>)),
          NetworkError("Network Error")}

\* The positions of loadData runs in flight: a run starts only when none is.
MaxLoadRuns == 1

LoadRunIds == 1..MaxLoadRuns

\* The sequence without its n-th element.
Without(seq, n) == SubSeq(seq, 1, n - 1) \o SubSeq(seq, n + 1, Len(seq))

\* loadData after Promise.all has fulfilled: the statistics are replaced when
\* the health check answered 200 and the listing has a body; then finally.
LoadFulfilled(healthResponse, incidentsResponse) ==
    [homeScreen EXCEPT
       !.stats = IF healthResponse.status = 200 /\ Truthy(incidentsResponse.data)
                 THEN updateStats(Or(Prop(incidentsResponse.data, "results"),
                                     Arr(<<>>)).items)
                 ELSE @,
       !.loading = FALSE,
       !.refreshing = FALSE]

\* Variant: the refresh indicator is switched off on the success path only.
LoadRejectedStillRefreshing ==
    [homeScreen EXCEPT
       !.error = Str("Failed to load data. Please check your connection."),
       !.loading = FALSE]

\* loadData after Promise.all has rejected: catch, then finally.
LoadRejected ==
    [homeScreen EXCEPT
       !.error = Str("Failed to load data. Please check your connection."),
       !.loading = FALSE,
       !.refreshing = FALSE]

\* Promise.all over the two requests of a run: rejected with the first
\* rejection, fulfilled when both requests have fulfilled.
PromiseAll(run) ==
    IF \E w \in {"health", "incidents"} :
         run[w] # None /\ run[w].settled = "rejected"
    THEN "rejected"
    ELSE IF run.health # None /\ run.incidents # None THEN "fulfilled"
    ELSE "pending"

\* The screen once a request of a run has settled: loadData resumes in the
\* same turn when Promise.all has settled.
loadDataResumes(run) ==
    CASE PromiseAll(run) = "rejected" -> LoadRejected
      [] PromiseAll(run) = "fulfilled" ->
             LoadFulfilled(run.health.value, run.incidents.value)
      [] OTHER -> homeScreen

\* The runs in flight once run n has become run.
RunsAfter(n, run) ==
    IF PromiseAll(run) = "pending" THEN [loadRuns EXCEPT ![n] = run]
    ELSE Without(loadRuns, n)

\* GET /health of run n settles.
healthCheckSettles(n, outcome) ==
    /\ n \in 1..Len(loadRuns)
    /\ loadRuns[n].health = None
    /\ outcome \in HealthOutcomes
    /\ homeScreen' = loadDataResumes([loadRuns[n] EXCEPT !.health = outcome])
    /\ loadRuns' = RunsAfter(n, [loadRuns[n] EXCEPT !.health = outcome])
    /\ UNCHANGED <<adapterVars, analysisVars>>

\* GET /api/incidents of run n settles.
getIncidentsSettles(n, outcome) ==
    /\ n \in 1..Len(loadRuns)
    /\ loadRuns[n].incidents = None
    /\ outcome \in ListingOutcomes
    /\ homeScreen' = loadDataResumes([loadRuns[n] EXCEPT !.incidents = outcome])
    /\ loadRuns' = RunsAfter(n, [loadRuns[n] EXCEPT !.incidents = outcome])
    /\ UNCHANGED <<adapterVars, analysisVars>>

\* Pull to refresh. The list is rendered only when loading is false, and the
\* refresh control does not fire again while it shows refreshing.
onRefresh ==
    /\ ~homeScreen.loading
    /\ ~homeScreen.refreshing
    /\ homeScreen' = [homeScreen EXCEPT !.refreshing = TRUE, !.error = Null]
    /\ Len(loadRuns) < MaxLoadRuns
    /\ loadRuns' = Append(loadRuns, LoadStarted)
    /\ UNCHANGED <<adapterVars, analysisVars>>

HomeNext ==
    \/ \E n \in LoadRunIds : \E o \in HealthOutcomes : healthCheckSettles(n, o)
    \/ \E n \in LoadRunIds : \E o \in ListingOutcomes : getIncidentsSettles(n, o)
    \/ onRefresh

HomeSpec == Init /\ [][HomeNext]_vars

\* Both requests carry the timeout of the mobile client, so both settle.
HomeFairSpec ==
    /\ HomeSpec
    /\ (MobileTimeout > 0
          => /\ WF_vars(\E n \in LoadRunIds :
                           \E o \in HealthOutcomes : healthCheckSettles(n, o))
             /\ WF_vars(\E n \in LoadRunIds :
                           \E o \in ListingOutcomes : getIncidentsSettles(n, o)))

\* ------------------------------------------------------------------------
\* Properties
\* ------------------------------------------------------------------------

Finished(i) == state[i] \in {"responded", "faulted"}

HasSettled(i) == settled[i] # None

\* The remote service answered with a failure status.
IsRemoteError(o) ==
    /\ o.settled = "rejected"
    /\ o.reason.isAxiosError
    /\ ~Nullish(o.reason.response)

\* The call failed without any response.
IsNetworkError(o) ==
    /\ o.settled = "rejected"
    /\ o.reason.isAxiosError
    /\ Nullish(o.reason.response)

\* The call failed with something that is not an AxiosError.
IsInternalFault(o) == o.settled = "rejected" /\ ~o.reason.isAxiosError

\* C1: every invocation gets exactly one envelope: never two, and never none
\* once it has finished on the success path or on a validation, unknown-tool
\* or remote failure path.
C1_ExactlyOneResponse ==
    \A i \in InvIds :
        /\ Len(responses[i]) <= 1
        /\ (Finished(i) /\ ~(HasSettled(i) /\ IsInternalFault(settled[i])))
              => Len(responses[i]) = 1

\* C2: no invocation hangs forever, also when the remote service never
\* answers: every received invocation eventually reaches a terminal state
\* (the claim names responded; an invocation that never even ends its call
\* reaches none).
C2_NoInvocationHangs ==
    \A i \in InvIds : (state[i] = "received") ~> Finished(i)

LacksIncidentId(m) ==
    /\ m.toolName = "add_incident"
    /\ ~HasKey(Prop(m.arguments, "incident"), "incident_id")

NonNumericMinutes(m) ==
    /\ m.toolName = "add_incident"
    /\ Prop(Prop(m.arguments, "incident"), "resolution_time_mins").t # "number"

\* C3: an invocation executes only with validated arguments; add_incident
\* with a record that lacks incident_id or has a non-numeric
\* resolution_time_mins makes no outbound call and is answered with the
\* error envelope "Invalid arguments: <field>".
C3_InvalidIncidentMakesNoCall ==
    \A i \in InvIds :
        /\ calls[i] # <<>> => validated[i] # None
        /\ (invocation[i] # None
            /\ (LacksIncidentId(invocation[i]) \/ NonNumericMinutes(invocation[i])))
              => /\ calls[i] = <<>>
                 /\ state[i] \in {"received", "responded"}
                 /\ state[i] = "responded" =>
                       responses[i] =
                          <<ErrorEnvelope(
                               "Invalid arguments: " \o
                               (IF LacksIncidentId(invocation[i])
                                THEN "incident.incident_id"
                                ELSE "incident.resolution_time_mins"))>>

C3_Witness ==
    \E i \in InvIds :
        /\ invocation[i] # None
        /\ LacksIncidentId(invocation[i])
        /\ state[i] = "responded"
        /\ calls[i] = <<>>

\* What a query tool sends: the JSON body of a POST, the query parameters
\* of a GET.
Sent(call) == IF call.method = "POST" THEN call.data ELSE call.params

\* C4: for the three query tools the outbound k is 5 when the invocation
\* omits k and the invocation's k otherwise, in the body of the two POST
\* tools and in the query parameters of search; the query is unchanged.
C4_DefaultAndExplicitK ==
    \A i \in InvIds :
        (calls[i] # <<>> /\ invocation[i].toolName \in QueryTools)
           => LET a == invocation[i].arguments
                  c == calls[i][1]
              IN /\ c.method = (IF invocation[i].toolName = "search_incidents"
                                THEN "GET" ELSE "POST")
                 /\ Prop(Sent(c), "k") =
                       (IF HasKey(a, "k") THEN Prop(a, "k") ELSE IntNum(5))
                 /\ Prop(Sent(c), "query") = Prop(a, "query")

C4_Witness ==
    \E i, j \in InvIds :
        /\ calls[i] # <<>> /\ calls[j] # <<>>
        /\ invocation[i].toolName = "search_incidents"
        /\ ~HasKey(invocation[i].arguments, "k")
        /\ Prop(calls[i][1].params, "k") = IntNum(5)
        /\ invocation[j].toolName = "search_incidents"
        /\ Prop(invocation[j].arguments, "k") = IntNum(8)
        /\ Prop(calls[j][1].params, "k") = IntNum(8)

\* C5: a failure status is answered with one envelope with isError = true
\* whose text is "API error: " and the message field of the remote body when
\* it has one, the generic message of the HTTP error otherwise.
C5_RemoteErrorText ==
    \A i \in InvIds :
        (HasSettled(i) /\ IsRemoteError(settled[i]))
           => LET r == settled[i].reason
                  body == r.response.data
              IN responses[i] =
                    <<ErrorEnvelope(
                         "API error: " \o
                         (IF HasKey(body, "message")
                          THEN Prop(body, "message").v
                          ELSE r.message.v))>>

\* C6: a remote failure never leaves the handler as an exception, whatever
\* the shape of its body; it is answered with an error envelope.
C6_RemoteErrorNeverEscapes ==
    \A i \in InvIds :
        (HasSettled(i) /\ IsRemoteError(settled[i]))
           => /\ faults[i] = None
              /\ state[i] = "responded"
              /\ Len(responses[i]) = 1
              /\ IsErrorEnvelope(responses[i][1])

\* C7: a call that fails without a response is answered with an envelope
\* with isError = true whose text is "API error: " and the cause, and the
\* failure throws nothing out of the invocation.
C7_NetworkErrorEnvelope ==
    \A i \in InvIds :
        (HasSettled(i) /\ IsNetworkError(settled[i]))
           => /\ faults[i] = None
              /\ state[i] = "responded"
              /\ Len(responses[i]) = 1
              /\ IsErrorEnvelope(responses[i][1])
              /\ SubSeq(TextOf(responses[i][1]), 1, 10) = "API error:"
              /\ TextOf(responses[i][1]) =
                    "API error: " \o settled[i].reason.message.v

C7_Witness ==
    \E i \in InvIds :
        /\ HasSettled(i)
        /\ IsNetworkError(settled[i])
        /\ settled[i].reason.message.v = "connect ETIMEDOUT"
        /\ responses[i] = <<ErrorEnvelope("API error: connect ETIMEDOUT")>>

\* C8: a failure in a handler that is not an AxiosError is rethrown out of
\* the dispatch path; no envelope is written for it.
C8_UnknownFailureRethrown ==
    \A i \in InvIds :
        /\ (HasSettled(i) /\ IsInternalFault(settled[i]))
              => /\ faults[i] = settled[i].reason
                 /\ state[i] = "faulted"
                 /\ responses[i] = <<>>
        /\ faults[i] # None => (~faults[i].isAxiosError /\ responses[i] = <<>>)

C8_Witness ==
    \E i \in InvIds :
        /\ HasSettled(i)
        /\ IsInternalFault(settled[i])
        /\ state[i] = "faulted"
        /\ faults[i].name = "TypeError"

CatalogueNames ==
    {"get_incidents", "add_incident", "analyze_root_cause", "analyze_patterns",
     "search_incidents", "get_stats"}

\* C9: each of the six tool names resolves to the tool registered under that
\* name; an invocation of any other name makes no remote call and is
\* answered with "Unknown tool: <name>".
C9_ResolveRegisteredOnly ==
    \A i \in InvIds :
        state[i] \notin {"idle", "received"}
           => LET name == invocation[i].toolName
              IN IF name \in CatalogueNames
                 THEN /\ \A j \in 1..Len(responses[i]) :
                            TextOf(responses[i][j]) # "Unknown tool: " \o name
                      /\ (validated[i] # None
                             => /\ resolved[i] \in 1..Len(Registry)
                                /\ Registry[resolved[i]].name = name)
                      /\ (validated[i] = None => calls[i] = <<>>)
                 ELSE /\ calls[i] = <<>>
                      /\ validated[i] = None
                      /\ state[i] = "responded"
                      /\ responses[i] =
                            <<ErrorEnvelope("Unknown tool: " \o name)>>

C9_Witness ==
    \E i, j \in InvIds :
        /\ state[i] = "responded"
        /\ invocation[i].toolName = "delete_incident"
        /\ responses[i] = <<ErrorEnvelope("Unknown tool: delete_incident")>>
        /\ state[j] = "executing"
        /\ invocation[j].toolName = "get_stats"
        /\ Registry[resolved[j]].name = "get_stats"

KOrFive(a) == IF HasKey(a, "k") THEN Prop(a, "k") ELSE IntNum(5)

\* The remote call of the catalogue for an invocation.
CatalogueCall(m) ==
    LET a == m.arguments
        queryAndK == Obj(<< <<"query", Prop(a, "query")>>, <<"k", KOrFive(a)>> >>)
    IN CASE m.toolName = "get_incidents" ->
               [method |-> "GET", url |-> "/api/incidents",
                data |-> Undefined, params |-> Undefined]
         [] m.toolName = "add_incident" ->
               [method |-> "POST", url |-> "/api/incidents",
                data |-> Prop(a, "incident"), params |-> Undefined]
         [] m.toolName = "analyze_root_cause" ->
               [method |-> "POST", url |-> "/api/analyze/root-cause",
                data |-> queryAndK, params |-> Undefined]
         [] m.toolName = "analyze_patterns" ->
               [method |-> "POST", url |-> "/api/analyze/patterns",
                data |-> queryAndK, params |-> Undefined]
         [] m.toolName = "search_incidents" ->
               [method |-> "GET", url |-> "/api/search",
                data |-> Undefined, params |-> queryAndK]
         [] m.toolName = "get_stats" ->
               [method |-> "GET", url |-> "/api/incidents/stats",
                data |-> Undefined, params |-> Undefined]

\* C10: each tool issues the remote call of the catalogue and no other.
C10_CatalogueCallOnly ==
    \A i \in InvIds :
        /\ calls[i] # <<>> => calls[i] = <<CatalogueCall(invocation[i])>>
        /\ (state[i] = "executing" \/ HasSettled(i)) => Len(calls[i]) = 1

C10_Witness ==
    \E i, j \in InvIds :
        /\ invocation[i] # None /\ invocation[j] # None
        /\ invocation[i].toolName = "add_incident"
        /\ calls[i] = <<Post("/api/incidents", FullIncident)>>
        /\ invocation[j].toolName = "get_stats"
        /\ calls[j] = <<Get("/api/incidents/stats", Undefined)>>

\* --- JSON.parse, as the host applies it to the text of an envelope ---

ParseError == [t |-> "SyntaxError"]

NoParse == [ok |-> FALSE]

Parsed(v, rest) == [ok |-> TRUE, value |-> v, rest |-> rest]

Digits == {"0", "1", "2", "3", "4", "5", "6", "7", "8", "9"}

DigitValue(c) == CHOOSE d \in 0..9 : ToString(d) = c

StartsWith(s, lit) == Len(s) >= Len(lit) /\ SubSeq(s, 1, Len(lit)) = lit

Drop(s, n) == SubSeq(s, n + 1, Len(s))

RECURSIVE SkipSpace(_)
SkipSpace(s) ==
    IF StartsWith(s, " ") \/ StartsWith(s, "\n") THEN SkipSpace(Drop(s, 1)) ELSE s

\* The characters after an opening quote up to the closing quote.
RECURSIVE ReadChars(_)
ReadChars(s) ==
    IF s = "" THEN NoParse
    ELSE LET c == SubSeq(s, 1, 1)
         IN IF c = "\"" THEN Parsed("", Drop(s, 1))
            ELSE IF c = "\\"
                 THEN IF Len(s) < 2 THEN NoParse
                      ELSE LET e == SubSeq(s, 2, 2)
                               r == ReadChars(Drop(s, 2))
                           IN IF r.ok
                              THEN Parsed((IF e = "n" THEN "\n" ELSE e) \o r.value,
                                          r.rest)
                              ELSE NoParse
                 ELSE LET r == ReadChars(Drop(s, 1))
                      IN IF r.ok THEN Parsed(c \o r.value, r.rest) ELSE NoParse

RECURSIVE ReadDigits(_, _)
ReadDigits(s, acc) ==
    IF s # "" /\ SubSeq(s, 1, 1) \in Digits
    THEN ReadDigits(Drop(s, 1), 10 * acc + DigitValue(SubSeq(s, 1, 1)))
    ELSE [n |-> acc, rest |-> s]

\* An integer, or an integer and a half.
ReadNumber(s) ==
    LET neg == StartsWith(s, "-")
        body == IF neg THEN Drop(s, 1) ELSE s
        sign == IF neg THEN -1 ELSE 1
    IN IF body = "" \/ SubSeq(body, 1, 1) \notin Digits THEN NoParse
       ELSE LET d == ReadDigits(body, 0)
            IN IF StartsWith(d.rest, ".")
               THEN IF StartsWith(d.rest, ".5")
                       /\ ~(Len(d.rest) > 2 /\ SubSeq(d.rest, 3, 3) \in Digits)
                    THEN Parsed(Num(sign * (2 * d.n + 1), 2), Drop(d.rest, 2))
                    ELSE NoParse
               ELSE Parsed(IntNum(sign * d.n), d.rest)

RECURSIVE ReadValue(_)
RECURSIVE ReadItems(_)
RECURSIVE ReadMembers(_)

ReadValue(text) ==
    LET s == SkipSpace(text)
    IN CASE StartsWith(s, "null") -> Parsed(Null, Drop(s, 4))
         [] StartsWith(s, "true") -> Parsed(Bool(TRUE), Drop(s, 4))
         [] StartsWith(s, "false") -> Parsed(Bool(FALSE), Drop(s, 5))
         [] StartsWith(s, "\"") ->
               LET r == ReadChars(Drop(s, 1))
               IN IF r.ok THEN Parsed(Str(r.value), r.rest) ELSE NoParse
         [] StartsWith(s, "[") ->
               LET t == SkipSpace(Drop(s, 1))
               IN IF StartsWith(t, "]") THEN Parsed(Arr(<<>>), Drop(t, 1))
                  ELSE ReadItems(t)
         [] StartsWith(s, "{") ->
               LET t == SkipSpace(Drop(s, 1))
               IN IF StartsWith(t, "}") THEN Parsed(Obj(<<>>), Drop(t, 1))
                  ELSE ReadMembers(t)
         [] OTHER -> ReadNumber(s)

\* The items of an array after "[", up to and including "]".
ReadItems(s) ==
    LET v == ReadValue(s)
    IN IF ~v.ok THEN NoParse
       ELSE LET t == SkipSpace(v.rest)
            IN IF StartsWith(t, ",")
               THEN LET more == ReadItems(Drop(t, 1))
                    IN IF more.ok
                       THEN Parsed(Arr(<<v.value>> \o more.value.items), more.rest)
                       ELSE NoParse
               ELSE IF StartsWith(t, "]") THEN Parsed(Arr(<<v.value>>), Drop(t, 1))
               ELSE NoParse

\* The members of an object after "{", up to and including "}".
ReadMembers(text) ==
    LET s == SkipSpace(text)
    IN IF ~StartsWith(s, "\"") THEN NoParse
       ELSE LET key == ReadChars(Drop(s, 1))
            IN IF ~key.ok THEN NoParse
               ELSE LET t == SkipSpace(key.rest)
                    IN IF ~StartsWith(t, ":") THEN NoParse
                       ELSE LET v == ReadValue(Drop(t, 1))
                            IN IF ~v.ok THEN NoParse
                               ELSE LET u == SkipSpace(v.rest)
                                        member == << <<key.value, v.value>> >>
                                    IN IF StartsWith(u, ",")
                                       THEN LET more == ReadMembers(Drop(u, 1))
                                            IN IF more.ok
                                               THEN Parsed(Obj(member \o more.value.props),
                                                           more.rest)
                                               ELSE NoParse
                                       ELSE IF StartsWith(u, "}")
                                       THEN Parsed(Obj(member), Drop(u, 1))
                                       ELSE NoParse

JSONParse(text) ==
    LET r == ReadValue(text)
    IN IF r.ok /\ SkipSpace(r.rest) = "" THEN r.value ELSE ParseError

IsSuccess(o) == o.settled = "fulfilled"

\* C11: on every 2xx response the envelope has no isError flag and its text,
\* parsed back as JSON, is the remote body: nothing added, dropped or
\* reordered.
C11_SuccessRoundTrip ==
    \A i \in InvIds :
        (HasSettled(i) /\ IsSuccess(settled[i]))
           => /\ state[i] = "responded"
              /\ Len(responses[i]) = 1
              /\ "isError" \notin DOMAIN responses[i][1]
              /\ JSONParse(TextOf(responses[i][1])) = settled[i].value.data

C11_Witness ==
    \E i \in InvIds :
        /\ HasSettled(i)
        /\ IsSuccess(settled[i])
        /\ invocation[i].toolName = "search_incidents"
        /\ HasKey(settled[i].value.data, "results")
        /\ HasKey(settled[i].value.data, "count")
        /\ JSONParse(TextOf(responses[i][1])) = settled[i].value.data

\* Everything the model holds about invocation i.
Own(i) ==
    <<state[i], invocation[i], validated[i], resolved[i], calls[i], settled[i],
      responses[i], faults[i], {m \in transport : m.id = i}>>

\* No step touches two invocations.
OneInvocationPerStep ==
    \A i, j \in InvIds : (i # j /\ Own(i)' # Own(i)) => Own(j)' = Own(j)

\* Whatever the other invocations are doing (waiting, failed or answered), a
\* validated invocation can issue its own call.
NeverBlocked ==
    \A i \in InvIds : state[i] = "validated" => ENABLED Execute(i)

\* Two invocations with the same arguments and the same remote outcome made
\* the same call and got the same answer.
SameInputsSameAnswer ==
    \A i, j \in InvIds :
        (Finished(i) /\ Finished(j)
         /\ invocation[i] = invocation[j] /\ settled[i] = settled[j])
           => /\ responses[i] = responses[j]
              /\ faults[i] = faults[j]
              /\ calls[i] = calls[j]

\* C12: concurrent invocations complete independently under every
\* interleaving: no step of one changes anything of another, none is ever
\* blocked by another, and what an invocation returns is determined by its
\* own arguments and its own remote outcome.
C12_IndependentInvocations ==
    /\ [](NeverBlocked /\ SameInputsSameAnswer)
    /\ [][OneInvocationPerStep]_vars

\* get_stats is still waiting for the remote service (or has failed) while
\* search_incidents, received later, already has its successful answer.
C12_Witness ==
    \E i, j \in InvIds :
        /\ i < j
        /\ invocation[i] # None /\ invocation[j] # None
        /\ invocation[i].toolName = "get_stats"
        /\ invocation[j].toolName = "search_incidents"
        /\ state[i] = "executing"
        /\ state[j] = "responded"
        /\ ~IsErrorEnvelope(responses[j][1])

\* The envelope that answers invocation i: built from its own remote outcome
\* once its call has settled, and from its own name and arguments when it
\* was rejected before any call.
OwnAnswer(i) ==
    IF HasSettled(i)
    THEN HandlerResult(settled[i]).value
    ELSE IF Resolve(invocation[i].toolName) = 0
         THEN UnknownToolEnvelope(invocation[i].toolName)
         ELSE ValidationErrorEnvelope(
                  SafeParse(Registry[Resolve(invocation[i].toolName)].inputSchema,
                            invocation[i].arguments).path)

\* C13: every response message on the transport carries the correlation
\* identifier of a finished invocation and holds the envelope built from
\* that invocation's own remote result, in whatever order the invocations
\* complete; no invocation has two different answers on the transport.
C13_ResponsesCorrelated ==
    /\ \A m \in transport :
          /\ m.id \in InvIds
          /\ state[m.id] = "responded"
          /\ m.result = OwnAnswer(m.id)
    /\ \A m, n \in transport : m.id = n.id => m = n

\* The second invocation has its successful answer on the transport while
\* the first, which arrived earlier, is still waiting for the remote service.
C13_Witness ==
    /\ MaxInv >= 2
    /\ state[1] = "executing"
    /\ state[2] = "responded"
    /\ HasSettled(2) /\ IsSuccess(settled[2])
    /\ transport = {Message(2, HandlerResult(settled[2]).value)}

\* C14: a call that was in flight when the host disconnected is abandoned:
\* the answer or failure of the remote service is never taken up by the
\* handler, and no response of that invocation is on the transport.
C14_ClosedTransportAbandonsCalls ==
    \A i \in cutOff :
        /\ ~HasSettled(i)
        /\ \A m \in transport : m.id # i

\* The record of an add_incident invocation.
IncidentOf(m) == Prop(m.arguments, "incident")

\* The six required fields are there with their primitive types.
RequiredWellTyped(r) ==
    /\ \A name \in {"incident_id", "timestamp", "category", "severity",
                    "description"} : Prop(r, name).t = "string"
    /\ Prop(r, "resolution_time_mins").t = "number"

\* Each of the four optional fields is absent or null.
OptionalsAbsentOrNull(r) ==
    \A name \in {"root_cause", "resolution", "affected_components", "impact"} :
        Prop(r, name).t \in {"undefined", "null"}

\* C15: add_incident accepts every record whose six required fields are well
\* typed and whose four optional fields are absent or null, and hands it to
\* the handler unchanged; it rejects every record in which a required field
\* is missing, null or of another primitive type, without running the
\* handler.
C15_IncidentValidator ==
    \A i \in InvIds :
        (invocation[i] # None /\ invocation[i].toolName = "add_incident"
         /\ state[i] \notin {"idle", "received"})
           => LET r == IncidentOf(invocation[i])
              IN /\ (RequiredWellTyped(r) /\ OptionalsAbsentOrNull(r))
                       => /\ validated[i] # None
                          /\ IncidentOf([arguments |-> validated[i]]) = r
                          /\ state[i] # "responded" \/ HasSettled(i)
                 /\ ~RequiredWellTyped(r)
                       => /\ validated[i] = None
                          /\ calls[i] = <<>>
                          /\ state[i] = "responded"
                          /\ Len(responses[i]) = 1
                          /\ IsErrorEnvelope(responses[i][1])

\* A record with the six required fields, root_cause and
\* affected_components null and impact absent has been posted as it came.
C15_Witness ==
    \E i \in InvIds :
        /\ invocation[i] # None
        /\ invocation[i].toolName = "add_incident"
        /\ Prop(IncidentOf(invocation[i]), "root_cause") = Null
        /\ Prop(IncidentOf(invocation[i]), "affected_components") = Null
        /\ ~HasKey(IncidentOf(invocation[i]), "impact")
        /\ calls[i] = <<Post("/api/incidents", IncidentOf(invocation[i]))>>

\* C16: the names of the registered tools are pairwise different, the load
\* of the module registered all six definitions without an exception,
\* registering any of these names once more is refused with an exception,
\* and the registered tools are the same in every state, whatever has been
\* invoked.
C16_RegistryUniqueAndFixed ==
    /\ Startup.kind = "return"
    /\ registered = Registry
    /\ \A j, k \in 1..Len(registered) :
          registered[j].name = registered[k].name => j = k
    /\ \A j \in 1..Len(registered) :
          registerTool(registered, registered[j]).kind = "throw"

\* An unknown tool has been refused and a registered one has run to its
\* answer: the six tools are still the registered ones.
C16_Witness ==
    /\ Len(registered) = 6
    /\ \E i, j \in InvIds :
          /\ state[i] = "responded" /\ state[j] = "responded"
          /\ invocation[i].toolName \notin RegisteredNames
          /\ HasSettled(j)

IsInteger(v) == v.t = "number" /\ v.num % v.den = 0

\* The invocation is of a query tool and carries a k that is not an integer.
KNotInteger(m) ==
    /\ m.toolName \in QueryTools
    /\ HasKey(m.arguments, "k")
    /\ ~IsInteger(Prop(m.arguments, "k"))

\* C17: an invocation of a query tool whose k is a non-integer number or not
\* a number makes no outbound call and, once dispatched, is answered with
\* the validation error envelope for k.
C17_NonIntegerKRejected ==
    \A i \in InvIds :
        (invocation[i] # None /\ KNotInteger(invocation[i]))
           => /\ calls[i] = <<>>
              /\ state[i] \in {"received", "responded"}
              /\ state[i] = "responded"
                    => responses[i] = <<ErrorEnvelope("Invalid arguments: k")>>

\* The remote call failed: with a failure status or without any response.
IsFailedCall(o) == IsRemoteError(o) \/ IsNetworkError(o)

\* No invocation makes a second call, whatever its first call came to.
AtMostOneCall == \A i \in InvIds : Len(calls[i]) <= 1

\* C18: every invocation makes at most one outbound call, and an invocation
\* whose call failed is finished at that moment, with that one call and with
\* one error envelope as its answer.
C18_OneCallNoRetry ==
    /\ AtMostOneCall
    /\ \A i \in InvIds :
          (HasSettled(i) /\ IsFailedCall(settled[i]))
             => /\ Len(calls[i]) = 1
                /\ state[i] = "responded"
                /\ Len(responses[i]) = 1
                /\ IsErrorEnvelope(responses[i][1])

\* C19: every envelope a handler returned has exactly one content block, of
\* type "text" with a text; it has isError = true when the remote call
\* failed and no isError field when the remote service answered with
\* success.
C19_EnvelopeShape ==
    \A i \in InvIds :
        \A n \in DOMAIN responses[i] :
            HasSettled(i)
               => LET e == responses[i][n]
                  IN /\ DOMAIN e \subseteq {"content", "isError"}
                     /\ Len(e.content) = 1
                     /\ DOMAIN e.content[1] = {"type", "text"}
                     /\ e.content[1].type = "text"
                     /\ IF IsSuccess(settled[i])
                        THEN "isError" \notin DOMAIN e
                        ELSE "isError" \in DOMAIN e /\ e.isError = TRUE

\* One invocation has the envelope of a call that failed without a response,
\* another the envelope of a successful call.
C19_Witness ==
    \E i, j \in InvIds :
        /\ HasSettled(i) /\ IsNetworkError(settled[i])
        /\ HasSettled(j) /\ IsSuccess(settled[j])
        /\ Len(responses[i]) = 1 /\ Len(responses[j]) = 1
        /\ responses[i][1].isError = TRUE
        /\ DOMAIN responses[j][1] = {"content"}

\* C20: in every state the process has exactly one HTTP client, the one
\* created at startup with its base URL and configuration, and the tools
\* registered at startup; no step of any invocation changes either.
C20_AdapterStateUnchanged ==
    /\ [](/\ Len(clients) = 1
          /\ clients[1] = [baseURL |-> API_BASE_URL, timeout |-> RequestTimeout]
          /\ registered = Startup.value)
    /\ [][clients' = clients /\ registered' = registered]_vars

\* Invocations of two different tools have finished, one with a remote
\* failure and one with success, and there is still the one client.
C20_Witness ==
    \E i, j \in InvIds :
        /\ HasSettled(i) /\ IsRemoteError(settled[i]) /\ Finished(i)
        /\ HasSettled(j) /\ IsSuccess(settled[j]) /\ Finished(j)
        /\ invocation[i].toolName # invocation[j].toolName
        /\ clients = <<axiosInstance>>

\* The analysis types whose endpoint answers with this body.
TypesAnswering(body) ==
    {type \in RadioValues :
        \E q \in TypedQueries : AnswerTo(AnalysisRequest(type, q).value) = body}

\* C21: whenever AnalysisResult is rendered, the result it gets is an answer
\* to a request of the analysis type it gets.
C21_ResultShownWithItsType ==
    Truthy(analysisScreen.result)
       => analysisScreen.analysisType \in TypesAnswering(analysisScreen.result)

\* The newest entry is first: the entries are in the order of their ids,
\* the latest first.
NewestFirst ==
    \A j, k \in 1..Len(analysisScreen.history) :
        j < k => analysisScreen.history[j].id > analysisScreen.history[k].id

\* A step that changes the history is the end of an analysis that succeeded
\* with a body: the body is the result shown and the first entry, no error is
\* set, the earlier entries follow in their order and the tenth of them, if
\* any, is gone.
HistoryGrowsOnSuccessOnly ==
    LET before == analysisScreen.history
        after == analysisScreen.history'
    IN after # before
          => /\ analyzing # None /\ analyzing' = None
             /\ after[1] = HistoryItem(clock, analyzing.query,
                                       analyzing.analysisType,
                                       analysisScreen.result')
             /\ Truthy(after[1].result)
             /\ after[1].result = AnswerTo(analyzing.call)
             /\ analysisScreen.error' = analysisScreen.error
             /\ Tail(after) = SubSeq(before, 1, Len(after) - 1)
             /\ Len(after) = IF Len(before) < 10 THEN Len(before) + 1 ELSE 10

\* C22: the history never has more than 10 entries, the newest is first, and
\* it changes only by the entry of an analysis that succeeded with a
\* non-empty body, which pushes out the oldest of ten.
C22_HistoryBounded ==
    /\ [](Len(analysisScreen.history) <= 10 /\ NewestFirst)
    /\ [][HistoryGrowsOnSuccessOnly]_vars

\* Eleven analyses have succeeded: the history holds the last ten, the first
\* one is gone.
C22_Witness ==
    /\ Len(analysisScreen.history) = 10
    /\ Len(outbound) = 11
    /\ analysisScreen.history[1].id = 12
    /\ analysisScreen.history[10].id = 3

\* The query has no character other than white space.
IsBlank(s) == \A j \in 1..Len(s) : IsWhiteSpace(SubSeq(s, j, j))

\* C23: a press on Analyze with an empty or whitespace-only query sends no
\* request, sets the error "Please enter a description or question" and
\* leaves loading, result and history as they are.
C23_BlankQueryRejected ==
    [][(IsBlank(analysisScreen.query) /\ analyzeIncident(MaxAnalyses))
          => /\ outbound' = outbound
             /\ analyzing' = analyzing
             /\ analysisScreen.error' = Str("Please enter a description or question")
             /\ analysisScreen.loading' = analysisScreen.loading
             /\ analysisScreen.result' = analysisScreen.result
             /\ analysisScreen.history' = analysisScreen.history]_vars

\* After one successful analysis Analyze was pressed with a query of two
\* spaces: the message is there, result and history are those of the
\* analysis and no second request went out.
C23_Witness ==
    /\ analysisScreen.query = "  "
    /\ analysisScreen.error = Str("Please enter a description or question")
    /\ ~analysisScreen.loading
    /\ Truthy(analysisScreen.result)
    /\ Len(analysisScreen.history) = 1
    /\ Len(outbound) = 1

\* A request goes out only together with loading = true, and loading stays
\* true as long as the request is awaited.
LoadingWhileAwaiting ==
    /\ outbound' # outbound => analysisScreen.loading'
    /\ analyzing' # None => analysisScreen.loading'

\* The end of a run sets loading to false; the end of a failed run also sets
\* error and leaves the history as it is.
RunEndsNotLoading ==
    \A o \in AllAnalysisOutcomes :
        analyzeIncidentResumes(o)
           => /\ ~analysisScreen.loading'
              /\ o.settled = "rejected"
                    => /\ Truthy(analysisScreen.error')
                       /\ analysisScreen.history' = analysisScreen.history

\* C24: an analyzeIncident that passes the empty-query check has loading =
\* true from before its request until it ends, and it does end, with loading
\* = false, whether the request succeeds or fails; a failure sets error and
\* adds nothing to the history.
C24_LoadingReset ==
    /\ [][LoadingWhileAwaiting /\ RunEndsNotLoading]_vars
    /\ (analyzing # None) ~> (analyzing = None /\ ~analysisScreen.loading)

\* A request has timed out: loading is false again, the error is the
\* fallback text and the history is empty.
C24_Witness ==
    /\ Len(outbound) = 1
    /\ analyzing = None
    /\ ~analysisScreen.loading
    /\ analysisScreen.error = Str("Analysis failed. Please try again.")
    /\ analysisScreen.history = <<>>


\* C25: every loadData run, the initial load or a pull to refresh, ends with
\* loading and refreshing false, whether both requests succeed or one fails;
\* when a request fails the error is set and the statistics keep their
\* previous values, and when both succeed the error is null.
RunEnds == Len(loadRuns') < Len(loadRuns)

EndsIdle == ~homeScreen'.loading /\ ~homeScreen'.refreshing

EndsAs(outcome) ==
    /\ EndsIdle
    /\ outcome.settled = "rejected"
         => /\ homeScreen'.error # Null
            /\ homeScreen'.stats = homeScreen.stats
    /\ outcome.settled = "fulfilled" => homeScreen'.error = Null

====
